---- MODULE Spec2Model ----
(***************************************************************************)
(* Model of src/src/solvers/cbc.rs: the CbcSolver configuration record and *)
(* its builder methods, the solution-file parser read_specific_solution,   *)
(* and run, which assembles the engine invocation, executes it and parses  *)
(* the solution file.                                                      *)
(*                                                                         *)
(* Text.  A line of the solution file is a record [readable, text].  text  *)
(* is the line cut into its maximal runs: WS stands for a run of           *)
(* whitespace, any other string for a maximal run of non-whitespace        *)
(* characters (a word).  Every line has exactly one such decomposition.    *)
(* readable = FALSE is a line whose bytes are not valid UTF-8, for which   *)
(* BufRead::read_line and BufRead::lines yield Err.                        *)
(*                                                                         *)
(* Numbers.  An f32 is modelled by its value in tenths (3.5 is 35).        *)
(***************************************************************************)
EXTENDS Integers, Sequences, FiniteSets, TLC

VARIABLES
    file,        \* parser: the lines of the solution file handed to read_specific_solution
    problem,     \* parser: Option<&P>, [some, vars]
    result,      \* parser: what read_specific_solution returned (NoResult before the call)
    solvers,     \* builder: the CbcSolver values constructed so far
    origin,      \* builder: for each value, the call that produced it [op, parent, arg]
    self,        \* run: the CbcSolver run is called on
    runProblem,  \* run: the set of variable names of the problem run is called with
    lastRun,     \* run: inputs, environment and outcome of the latest run
    invocations  \* run: the argument lists passed to the engine so far, oldest first

vars == <<file, problem, result, solvers, origin, self, runProblem, lastRun, invocations>>

parserVars == <<file, problem, result>>
builderVars == <<solvers, origin>>
runVars == <<self, runProblem, lastRun, invocations>>

-----------------------------------------------------------------------------
(* Bounds *)

\* data lines (lines after the status line) of a file given to the parser
MaxLines == 2
\* CbcSolver values kept by the builder specification
MaxSolvers == 3
\* executions of run on one solver
MaxRuns == 2

-----------------------------------------------------------------------------
(* Text *)

WS == " "

Line(text) == [readable |-> TRUE, text |-> text]

BadUtf8Line == [readable |-> FALSE, text |-> <<>>]

\* str::split_whitespace, collected: the words of a line, in order
SplitWhitespace(text) == SelectSeq(text, LAMBDA piece : piece # WS)

RECURSIVE Join(_)
\* the line made of the given words separated by single runs of whitespace
Join(words) ==
    IF Len(words) <= 1 THEN words
    ELSE <<Head(words), WS>> \o Join(Tail(words))

\* str::parse::<f32> on the words the model's files carry
ParseF32(word) ==
    CASE word = "3.5"  -> [ok |-> TRUE,  val |-> 35,  msg |-> <<>>]
      [] word = "3.50" -> [ok |-> TRUE,  val |-> 35,  msg |-> <<>>]
      [] word = "-2.0" -> [ok |-> TRUE,  val |-> -20, msg |-> <<>>]
      [] word = "1"    -> [ok |-> TRUE,  val |-> 10,  msg |-> <<>>]
      [] word = "0"    -> [ok |-> TRUE,  val |-> 0,   msg |-> <<>>]
      [] word = "0.1"  -> [ok |-> TRUE,  val |-> 1,   msg |-> <<>>]
      [] word = "2"    -> [ok |-> TRUE,  val |-> 20,  msg |-> <<>>]
      [] word = "9"    -> [ok |-> TRUE,  val |-> 90,  msg |-> <<>>]
      [] OTHER         -> [ok |-> FALSE, val |-> 0,   msg |-> <<"invalid float literal">>]

-----------------------------------------------------------------------------
(* Results *)

EmptyMap == [n \in {} |-> 0]

NoResult == [kind |-> "None", status |-> "", values |-> EmptyMap, msg |-> <<>>]

\* Ok(Solution::new(status, vars_value))
Ok(status, values) == [kind |-> "Ok", status |-> status, values |-> values, msg |-> <<>>]

\* Err(msg); a message is the sequence of the pieces it is formatted from
Err(msg) == [kind |-> "Err", status |-> "", values |-> EmptyMap, msg |-> msg]

\* the thread panics: no value is returned
Panic == [kind |-> "Panic", status |-> "", values |-> EmptyMap, msg |-> <<>>]

NoProblem == [some |-> FALSE, vars |-> {}]

SomeProblem(V) == [some |-> TRUE, vars |-> V]

-----------------------------------------------------------------------------
(* read_specific_solution *)

\* variant: the map is not seeded from the problem
DefaultValuesNone(p) == EmptyMap

\* populate default values for all vars
DefaultValues(p) ==
    IF p.some THEN [n \in p.vars |-> 0] ELSE EmptyMap

\* variant: an existing entry is kept (first write wins)
InsertKeepFirst(m, k, v) ==
    [n \in DOMAIN m \cup {k} |-> IF n \in DOMAIN m THEN m[n] ELSE v]

\* HashMap::insert
Insert(m, k, v) ==
    [n \in DOMAIN m \cup {k} |-> IF n = k THEN v ELSE m[n]]

\* let _ = file.read_line(&mut buffer): the buffer after the call.  An empty
\* file reads 0 bytes; an Err (invalid UTF-8) is discarded and leaves the
\* buffer empty.
ReadLine(f) ==
    IF f = <<>> THEN <<>>
    ELSE IF Head(f).readable THEN Head(f).text
    ELSE <<>>

\* what file.lines() iterates over after the first read_line
RestLines(f) == IF f = <<>> THEN <<>> ELSE Tail(f)

\* variant: "Integer infeasible" is not recognised
StatusOfNoInteger(word) ==
    CASE word = "Optimal"    -> "Optimal"
      [] word = "Infeasible" -> "Infeasible"
      [] word = "Unbounded"  -> "Unbounded"
      [] word = "Stopped"    -> "SubOptimal"
      [] OTHER               -> "NotSolved"

\* match status { ... }
StatusOf(word) ==
    CASE word = "Optimal"    -> "Optimal"
      [] word = "Infeasible" -> "Infeasible"
      [] word = "Integer"    -> "Infeasible"
      [] word = "Unbounded"  -> "Unbounded"
      [] word = "Stopped"    -> "SubOptimal"
      [] OTHER               -> "NotSolved"

\* variant: a first line without a word counts as an unknown status
StatusLineLenient(buffer) ==
    LET words == SplitWhitespace(buffer)
    IN  IF words # <<>>
        THEN [ok |-> TRUE, status |-> StatusOf(words[1])]
        ELSE [ok |-> TRUE, status |-> "NotSolved"]

\* let status = if let Some(status) = buffer.split_whitespace().next() {..}
\*              else { return Err(..) }
StatusLine(buffer) ==
    LET words == SplitWhitespace(buffer)
    IN  IF words # <<>>
        THEN [ok |-> TRUE, status |-> StatusOf(words[1])]
        ELSE [ok |-> FALSE, status |-> ""]

RECURSIVE ParseLines(_, _, _)
\* for line in file.lines() { ... }  Ok(Solution::new(status, vars_value))
ParseLines(lines, status, vars_value) ==
    IF lines = <<>> THEN Ok(status, vars_value)
    ELSE
      LET line == Head(lines)
      IN  IF ~line.readable THEN Panic                \* line.unwrap()
          ELSE
            LET words == SplitWhitespace(line.text)
            IN  IF words = <<>> THEN Panic            \* result_line[0]
                ELSE
                  LET result_line ==
                        IF words[1] = "**" THEN Tail(words) ELSE words
                  IN  IF Len(result_line) = 4
                      THEN LET n == ParseF32(result_line[3])
                           IN  IF n.ok
                               THEN ParseLines(Tail(lines), status,
                                      Insert(vars_value, result_line[2], n.val))
                               ELSE Err(n.msg)
                      ELSE Err(<<"Incorrect solution format">>)

read_specific_solution(f, p) ==
    LET vars_value == DefaultValues(p)
        st == StatusLine(ReadLine(f))
    IN  IF st.ok
        THEN ParseLines(RestLines(f), st.status, vars_value)
        ELSE Err(<<"Incorrect solution format">>)

-----------------------------------------------------------------------------
(* Inputs of the parser specification *)

VarNames == {"x1", "y2"}

Problems == {NoProblem} \cup {SomeProblem(V) : V \in SUBSET VarNames}

StatusLines ==
    { Line(<<"Optimal">>),
      Line(<<"Optimal", WS, "-", WS, "objective", WS, "value", WS, "3.5">>),
      Line(<<WS, "Optimal", WS>>),
      Line(<<"Optimally">>),
      Line(<<"Infeasible">>),
      Line(<<"Integer", WS, "infeasible">>),
      Line(<<"Unbounded">>),
      Line(<<"Stopped", WS, "on", WS, "time">>),
      Line(<<"Foo", WS, "Optimal">>),
      Line(<<>>),
      Line(<<WS>>),
      BadUtf8Line }

DataWords ==
    { <<"0", "x1", "3.5", "0">>,
      <<"**", "1", "y2", "-2.0", "0.1">>,
      <<"2", "x1", "1", "0">>,
      <<"3", "z3", "3.50", "0">>,
      <<"0", "x1", "abc", "0">>,
      <<"0", "x1", "3.5">>,
      <<"**", "0", "x1", "3.5">>,
      <<"0", "x1", "3.5", "0", "9">>,
      <<"**", "**", "y2", "2", "0">>,
      <<"**">>,
      <<>> }

DataLines ==
    { Line(Join(w)) : w \in DataWords }
      \cup { Line(<<WS>>), Line(<<WS>> \o Join(<<"1", "y2", "1", "0">>) \o <<WS>>),
             BadUtf8Line }

RECURSIVE SeqsUpTo(_, _)
\* the sequences over S of length at most n
SeqsUpTo(S, n) ==
    IF n = 0 THEN {<<>>}
    ELSE LET shorter == SeqsUpTo(S, n - 1)
         IN  shorter \cup {<<x>> \o s : x \in S, s \in {t \in shorter : Len(t) = n - 1}}

Files ==
    {<<>>} \cup {<<s>> \o body : s \in StatusLines, body \in SeqsUpTo(DataLines, MaxLines)}

-----------------------------------------------------------------------------
(* CbcSolver and its builder methods *)

None == [some |-> FALSE, val |-> 0]

Some(n) == [some |-> TRUE, val |-> n]

Uuids == {"u1", "u2"}

CommandNames == {"coin-cbc", "/opt/cbc"}

TempFiles == {"out.sol", "tmp.sol"}

SecondsValues == {30, 60}

ThreadsValues == {4, 8}

\* format!("{}.sol", Uuid::new_v4().to_string())
SolFile(uuid) ==
    CASE uuid = "u1" -> "u1.sol"
      [] uuid = "u2" -> "u2.sol"

\* CbcSolver::new, with the uuid that Uuid::new_v4 draws
new(uuid) ==
    [name |-> "Cbc",
     command_name |-> "cbc",
     temp_solution_file |-> SolFile(uuid),
     threads |-> None,
     seconds |-> None]

command_name(s, cmd) ==
    [name |-> s.name,
     command_name |-> cmd,
     temp_solution_file |-> s.temp_solution_file,
     threads |-> None,
     seconds |-> None]

with_temp_solution_file(s, path) ==
    [name |-> s.name,
     command_name |-> s.command_name,
     temp_solution_file |-> path,
     threads |-> None,
     seconds |-> None]

max_seconds(s) == s.seconds

\* variant: written like command_name, dropping the thread count
with_max_seconds_reset(s, seconds) ==
    [name |-> s.name,
     command_name |-> s.command_name,
     temp_solution_file |-> s.temp_solution_file,
     threads |-> None,
     seconds |-> Some(seconds)]

\* CbcSolver { seconds: Some(seconds), ..(*self).clone() }
with_max_seconds(s, seconds) == [s EXCEPT !.seconds = Some(seconds)]

nb_threads(s) == s.threads

\* CbcSolver { threads: Some(threads), ..(*self).clone() }
with_nb_threads(s, threads) == [s EXCEPT !.threads = Some(threads)]

-----------------------------------------------------------------------------
(* run *)

\* u32::to_string on the values the model's configurations carry
U32ToString(n) ==
    CASE n = 0  -> "0"
      [] n = 4  -> "4"
      [] n = 8  -> "8"
      [] n = 30 -> "30"
      [] n = 60 -> "60"

\* variant: an unset option is passed as the value 0
OptionalParamsSentinel(s) ==
    << [some |-> TRUE, arg |-> "seconds", value |-> max_seconds(s).val],
       [some |-> TRUE, arg |-> "threads", value |-> nb_threads(s).val] >>

\* let optional_params: Vec<Option<(String, u32)>> = vec![..]
OptionalParams(s) ==
    << [some |-> max_seconds(s).some, arg |-> "seconds", value |-> max_seconds(s).val],
       [some |-> nb_threads(s).some,  arg |-> "threads", value |-> nb_threads(s).val] >>

\* for (arg, value) in optional_params.iter().flatten() { params.insert(..) }
\* the HashMap<String, String> as a function from its keys
Params(s) ==
    LET present == {i \in 1..2 : OptionalParams(s)[i].some}
    IN  [k \in {OptionalParams(s)[i].arg : i \in present} |->
            LET i == CHOOSE j \in present : OptionalParams(s)[j].arg = k
            IN  U32ToString(OptionalParams(s)[i].value)]

\* the orders in which a HashMap with the default RandomState hasher may
\* iterate over the two possible keys; each HashMap gets fresh hasher keys
IterationOrders == {<<"seconds", "threads">>, <<"threads", "seconds">>}

RECURSIVE FlatMap(_, _)
\* params.iter().flat_map(|(k, v)| vec![k, v]), the keys visited in the given order
FlatMap(params, keys) ==
    IF keys = <<>> THEN <<>>
    ELSE <<Head(keys), params[Head(keys)]>> \o FlatMap(params, Tail(keys))

\* Command::new(..).arg(path).args(..).arg("solve").arg("solution").arg(file)
Args(s, path, order) ==
    <<path>>
      \o FlatMap(Params(s), SelectSeq(order, LAMBDA k : k \in DOMAIN Params(s)))
      \o <<"solve", "solution", s.temp_solution_file>>

\* the solution files the engine may leave at a path, or no file at all
NoFile == [exists |-> FALSE, lines |-> <<>>]

FileOf(lines) == [exists |-> TRUE, lines |-> lines]

RunFiles ==
    { NoFile,
      FileOf(<<Line(<<"Optimal", WS, "-", WS, "objective", WS, "value", WS, "3.5">>),
               Line(Join(<<"0", "x1", "3.5", "0">>))>>),
      FileOf(<<Line(<<"Infeasible">>), Line(Join(<<"0", "x1", "3.5">>))>>) }

\* SolverWithSolutionParsing::read_solution: open the file at the path and
\* hand it to read_specific_solution
read_solution(disk, path, p) ==
    IF disk[path].exists
    THEN read_specific_solution(disk[path].lines, p)
    ELSE Err(<<"Cannot open file">>)

SpawnFailed == "spawn failed"

ExitStatuses == {"exit status: 0", "exit status: 1", "signal: 9 (SIGKILL)"}

\* ExitStatus::success
Success(status) == status = "exit status: 0"

\* variant: the solution file is read whatever the outcome of the process
AndThenAlwaysRead(s, p, output, disk) ==
    [parsed |-> TRUE, result |-> read_solution(disk, s.temp_solution_file, SomeProblem(p))]

\* .map_err(|_| format!("Error running the {} solver", self.name))
\* .and_then(|r| if r.status.success() { self.read_solution(..) }
\*               else { Err(r.status.to_string()) })
AndThen(s, p, output, disk) ==
    IF output = SpawnFailed
    THEN [parsed |-> FALSE, result |-> Err(<<"Error running the ", s.name, " solver">>)]
    ELSE IF Success(output)
    THEN [parsed |-> TRUE,
          result |-> read_solution(disk, s.temp_solution_file, SomeProblem(p))]
    ELSE [parsed |-> FALSE, result |-> Err(<<output>>)]

\* run on the solver s and a problem with variables p, in the environment
\* env: the outcome of to_tmp_file, the iteration order of params, the
\* outcome of Command::output and the files on disk once the engine is done
run(s, p, env) ==
    IF ~env.tmp.ok
    THEN [built |-> FALSE, args |-> <<>>, parsed |-> FALSE,
          result |-> Err(<<"Unable to create cbc problem file: ", env.tmp.error>>)]
    ELSE LET r == AndThen(s, p, env.output, env.disk)
         IN  [built |-> TRUE, args |-> Args(s, env.tmp.path, env.order),
              parsed |-> r.parsed, result |-> r.result]

-----------------------------------------------------------------------------
(* Run specification: one solver, run up to MaxRuns times on one problem *)

RunPaths == {SolFile("u1"), "out.sol"}

\* values the builder methods can produce
RunSolvers ==
    [name : {"Cbc"},
     command_name : {"cbc", "coin-cbc"},
     temp_solution_file : RunPaths,
     threads : {None, Some(4)},
     seconds : {None} \cup {Some(t) : t \in SecondsValues}]

\* what the engine and earlier runs may have left at the two paths
Disks == {d \in [RunPaths -> RunFiles] : d[SolFile("u1")] # d["out.sol"]}

TmpFiles ==
    { [ok |-> TRUE, path |-> "/tmp/model.lp", error |-> ""],
      [ok |-> FALSE, path |-> "", error |-> "No space left on device"] }

Environments ==
    [tmp : TmpFiles,
     order : IterationOrders,
     output : {SpawnFailed} \cup ExitStatuses,
     disk : Disks]

NoRun ==
    [called |-> FALSE,
     env |-> [tmp |-> [ok |-> FALSE, path |-> "", error |-> ""],
              order |-> <<>>, output |-> "", disk |-> [q \in RunPaths |-> NoFile]],
     out |-> [built |-> FALSE, args |-> <<>>, parsed |-> FALSE, result |-> NoResult]]

InitRun ==
    /\ self \in RunSolvers
    /\ runProblem = {"x1", "y2"}
    /\ lastRun = NoRun
    /\ invocations = <<>>
    /\ file = <<>> /\ problem = NoProblem /\ result = NoResult
    /\ solvers = <<>> /\ origin = <<>>

Run ==
    \E env \in Environments :
        /\ Len(invocations) < MaxRuns
        /\ LET out == run(self, runProblem, env)
           IN  /\ lastRun' = [called |-> TRUE, env |-> env, out |-> out]
               /\ invocations' =
                     IF out.built THEN Append(invocations, out.args) ELSE invocations
        /\ UNCHANGED <<self, runProblem, parserVars, builderVars>>

NextRun == Run

SpecRun == InitRun /\ [][NextRun]_vars

-----------------------------------------------------------------------------
(* Builder specification: a heap of CbcSolver values, each the result of    *)
(* new or of a builder method called on an earlier value.  Every method     *)
(* takes &self and returns a fresh value.                                   *)

InitBuilder ==
    /\ solvers = <<>>
    /\ origin = <<>>
    /\ file = <<>> /\ problem = NoProblem /\ result = NoResult
    /\ self = new("u1") /\ runProblem = {} /\ lastRun = NoRun
    /\ invocations = <<>>

New ==
    \E u \in Uuids :
        /\ Len(solvers) < MaxSolvers
        /\ solvers' = Append(solvers, new(u))
        /\ origin' = Append(origin, [op |-> "new", parent |-> 0, str |-> u, num |-> 0])
        /\ UNCHANGED <<parserVars, runVars>>

CommandName ==
    \E i \in DOMAIN solvers, cmd \in CommandNames :
        /\ Len(solvers) < MaxSolvers
        /\ solvers' = Append(solvers, command_name(solvers[i], cmd))
        /\ origin' = Append(origin,
                        [op |-> "command_name", parent |-> i, str |-> cmd, num |-> 0])
        /\ UNCHANGED <<parserVars, runVars>>

WithTempSolutionFile ==
    \E i \in DOMAIN solvers, path \in TempFiles :
        /\ Len(solvers) < MaxSolvers
        /\ solvers' = Append(solvers, with_temp_solution_file(solvers[i], path))
        /\ origin' = Append(origin,
                        [op |-> "with_temp_solution_file", parent |-> i, str |-> path, num |-> 0])
        /\ UNCHANGED <<parserVars, runVars>>

WithMaxSeconds ==
    \E i \in DOMAIN solvers, seconds \in SecondsValues :
        /\ Len(solvers) < MaxSolvers
        /\ solvers' = Append(solvers, with_max_seconds(solvers[i], seconds))
        /\ origin' = Append(origin,
                        [op |-> "with_max_seconds", parent |-> i, str |-> "", num |-> seconds])
        /\ UNCHANGED <<parserVars, runVars>>

WithNbThreads ==
    \E i \in DOMAIN solvers, threads \in ThreadsValues :
        /\ Len(solvers) < MaxSolvers
        /\ solvers' = Append(solvers, with_nb_threads(solvers[i], threads))
        /\ origin' = Append(origin,
                        [op |-> "with_nb_threads", parent |-> i, str |-> "", num |-> threads])
        /\ UNCHANGED <<parserVars, runVars>>

NextBuilder ==
    \/ New
    \/ CommandName
    \/ WithTempSolutionFile
    \/ WithMaxSeconds
    \/ WithNbThreads

SpecBuilder == InitBuilder /\ [][NextBuilder]_vars

-----------------------------------------------------------------------------
(* Parser specification *)

InitParser ==
    /\ file \in Files
    /\ problem \in Problems
    /\ result = NoResult
    /\ solvers = <<>> /\ origin = <<>>
    /\ self = new("u1") /\ runProblem = {} /\ lastRun = NoRun
    /\ invocations = <<>>

ReadSpecificSolution ==
    /\ result = NoResult
    /\ result' = read_specific_solution(file, problem)
    /\ UNCHANGED <<file, problem, builderVars, runVars>>

NextParser == ReadSpecificSolution

SpecParser == InitParser /\ [][NextParser]_vars

-----------------------------------------------------------------------------
(* Properties of read_specific_solution *)

Called == result.kind # "None"

\* the words of the first line, when the file has one that can be read
FirstWords ==
    IF file # <<>> /\ file[1].readable THEN SplitWhitespace(file[1].text) ELSE <<>>

\* the words of data line i (line i + 1 of the file) after an optional
\* leading "**" is dropped
Fields(i) ==
    LET words == SplitWhitespace(file[i + 1].text)
    IN  IF words # <<>> /\ words[1] = "**" THEN Tail(words) ELSE words

DataIndexes == 1..(Len(file) - 1)

\* the data lines that report the name n
Mentions(n) == {i \in DataIndexes : Len(Fields(i)) >= 2 /\ Fields(i)[2] = n}

MentionedNames == {Fields(i)[2] : i \in {j \in DataIndexes : Len(Fields(j)) >= 2}}

Maximum(S) == CHOOSE i \in S : \A j \in S : j <= i

\* C1: when a problem is supplied and the file parses, every variable of the
\* problem is a key of the value mapping, and one that no data line mentions
\* is mapped to 0.0; the file made of the single line "Optimal" yields status
\* Optimal with every variable of the problem at 0.0.
C1_DefaultsSeeded ==
    /\ (result.kind = "Ok" /\ problem.some) =>
          \A v \in problem.vars :
              /\ v \in DOMAIN result.values
              /\ (Mentions(v) = {} => result.values[v] = 0)
    /\ (Called /\ file = <<Line(<<"Optimal">>)>>) =>
          /\ result.kind = "Ok"
          /\ result.status = "Optimal"
          /\ problem.some =>
                /\ problem.vars \subseteq DOMAIN result.values
                /\ \A v \in problem.vars : result.values[v] = 0

C1_Witness ==
    /\ result.kind = "Ok"
    /\ problem = SomeProblem({"x1", "y2"})
    /\ Len(file) = 2
    /\ Mentions("x1") # {}
    /\ Mentions("y2") = {}
    /\ result.values["y2"] = 0
    /\ result.values["x1"] # 0

\* C2: the status of a returned Solution is decided by the first word of the
\* first line alone, by the table Optimal -> Optimal, Infeasible and
\* Integer -> Infeasible, Unbounded -> Unbounded, Stopped -> SubOptimal,
\* anything else -> NotSolved.
C2_StatusFromFirstToken ==
    result.kind = "Ok" =>
        /\ FirstWords # <<>>
        /\ result.status =
              (IF FirstWords[1] = "Optimal" THEN "Optimal"
               ELSE IF FirstWords[1] \in {"Infeasible", "Integer"} THEN "Infeasible"
               ELSE IF FirstWords[1] = "Unbounded" THEN "Unbounded"
               ELSE IF FirstWords[1] = "Stopped" THEN "SubOptimal"
               ELSE "NotSolved")

C2_Witness ==
    /\ result.kind = "Ok"
    /\ result.status = "Infeasible"
    /\ FirstWords = <<"Integer", "infeasible">>
    /\ Len(file) = 3

\* C3: with a valid status line and readable data lines, a data line whose
\* word count after removal of an optional leading "**" is not 4 (0 words
\* included) makes read_specific_solution return an error and no Solution.
C3_WrongCountIsError ==
    ( /\ Called
      /\ FirstWords # <<>>
      /\ \A i \in DataIndexes : file[i + 1].readable
      /\ \E i \in DataIndexes : Len(Fields(i)) # 4 )
    => result.kind = "Err"

\* C8 as stated: a first line with no word (empty, whitespace only, or an
\* empty file) yields a Solution with status NotSolved.
C8_EmptyFirstLineNotSolved ==
    ( /\ Called
      /\ file = <<>> \/ (file[1].readable /\ FirstWords = <<>>)
      /\ Len(file) <= 1 )
    => (result.kind = "Ok" /\ result.status = "NotSolved")

\* C8 amended: a first line with no word (empty, whitespace only, an empty
\* file) or one that cannot be read makes read_specific_solution fail with
\* "Incorrect solution format" whatever follows it; a Solution with status
\* NotSolved is returned only for a first word outside the five known ones.
C8_EmptyFirstLineIsError ==
    /\ (Called /\ FirstWords = <<>>) => result = Err(<<"Incorrect solution format">>)
    /\ (result.kind = "Ok" /\ result.status = "NotSolved") =>
          /\ FirstWords # <<>>
          /\ FirstWords[1] \notin {"Optimal", "Infeasible", "Integer", "Unbounded", "Stopped"}

C8_Witness ==
    /\ Called
    /\ Len(file) = 2
    /\ file[1] = Line(<<WS>>)
    /\ Len(Fields(1)) = 4
    /\ result.kind = "Err"

\* C9: when the file parses, the value mapping is the seeded defaults
\* overridden by the data lines in file order: its keys are the problem's
\* variables (none when no problem is supplied) and the names at position 1
\* of the data lines; a reported name has the value at position 2 of the last
\* line that reports it, and an unreported variable of the problem has 0.0.
C9_LastWriteWins ==
    result.kind = "Ok" =>
        /\ DOMAIN result.values =
              (IF problem.some THEN problem.vars ELSE {}) \cup MentionedNames
        /\ \A n \in DOMAIN result.values :
              IF Mentions(n) = {} THEN result.values[n] = 0
              ELSE LET word == Fields(Maximum(Mentions(n)))[3]
                   IN  /\ ParseF32(word).ok
                       /\ result.values[n] = ParseF32(word).val

C9_Witness ==
    /\ result.kind = "Ok"
    /\ problem = SomeProblem({"x1"})
    /\ Len(file) = 3
    /\ SplitWhitespace(file[2].text) = <<"**", "1", "y2", "-2.0", "0.1">>
    /\ file[3].text = <<WS, "1", WS, "y2", WS, "1", WS, "0", WS>>
    /\ DOMAIN result.values = {"x1", "y2"}
    /\ result.values["x1"] = 0
    /\ result.values["y2"] = 10

-----------------------------------------------------------------------------
(* Properties of the builder methods *)

\* the fields of a CbcSolver other than the one named
SameExcept(a, b, field) ==
    /\ field = "name" \/ a.name = b.name
    /\ field = "command_name" \/ a.command_name = b.command_name
    /\ field = "temp_solution_file" \/ a.temp_solution_file = b.temp_solution_file
    /\ field = "threads" \/ a.threads = b.threads
    /\ field = "seconds" \/ a.seconds = b.seconds

\* C5: on a default configuration, with_max_seconds(s) and with_nb_threads(t)
\* applied in either order give max_seconds() = Some(s) and nb_threads() =
\* Some(t) together; each of the two methods leaves every field but its own
\* as in the receiver, and no call changes a value that already exists.
C5_TuningWithersCompose ==
    /\ [](\A k \in DOMAIN solvers :
            LET o == origin[k]
            IN  /\ o.op = "with_max_seconds" =>
                      /\ max_seconds(solvers[k]) = Some(o.num)
                      /\ SameExcept(solvers[k], solvers[o.parent], "seconds")
                      /\ (origin[o.parent].op = "with_nb_threads"
                            /\ origin[origin[o.parent].parent].op = "new") =>
                              nb_threads(solvers[k]) = Some(origin[o.parent].num)
                /\ o.op = "with_nb_threads" =>
                      /\ nb_threads(solvers[k]) = Some(o.num)
                      /\ SameExcept(solvers[k], solvers[o.parent], "threads")
                      /\ (origin[o.parent].op = "with_max_seconds"
                            /\ origin[origin[o.parent].parent].op = "new") =>
                              max_seconds(solvers[k]) = Some(origin[o.parent].num))
    /\ [][\A i \in DOMAIN solvers : i \in DOMAIN solvers' /\ solvers'[i] = solvers[i]]_vars

C5_Witness ==
    /\ Len(solvers) = 3
    /\ origin[1].op = "new"
    /\ origin[2].op = "with_nb_threads" /\ origin[2].parent = 1
    /\ origin[3].op = "with_max_seconds" /\ origin[3].parent = 2
    /\ max_seconds(solvers[3]) = Some(30)
    /\ nb_threads(solvers[3]) = Some(4)
    /\ solvers[1] = new("u1")

RECURSIVE LatestUpdate(_, _)
\* the most recent call of the builder method op on the chain of calls that
\* produced solvers[k]: the index of the value it returned, 0 if there is none
LatestUpdate(k, op) ==
    IF origin[k].op = op THEN k
    ELSE IF origin[k].op = "new" THEN 0
    ELSE LatestUpdate(origin[k].parent, op)

RECURSIVE Root(_)
\* the value returned by new from which solvers[k] was built
Root(k) == IF origin[k].op = "new" THEN k ELSE Root(origin[k].parent)

\* C6: after any sequence of builder updates each field holds the value of
\* the most recent update of that field, or its default when it was never
\* updated.
C6_FieldsKeepLatestUpdate ==
    \A k \in DOMAIN solvers :
        LET cmd  == LatestUpdate(k, "command_name")
            path == LatestUpdate(k, "with_temp_solution_file")
            secs == LatestUpdate(k, "with_max_seconds")
            thr  == LatestUpdate(k, "with_nb_threads")
        IN  /\ solvers[k].name = "Cbc"
            /\ solvers[k].command_name = (IF cmd = 0 THEN "cbc" ELSE origin[cmd].str)
            /\ solvers[k].temp_solution_file =
                  (IF path = 0 THEN SolFile(origin[Root(k)].str) ELSE origin[path].str)
            /\ solvers[k].seconds = (IF secs = 0 THEN None ELSE Some(origin[secs].num))
            /\ solvers[k].threads = (IF thr = 0 THEN None ELSE Some(origin[thr].num))

-----------------------------------------------------------------------------
(* Properties of run *)

\* C4: run parses the solution file only when the engine was started and
\* exited with success.  A process that cannot be started gives the error
\* "Error running the Cbc solver", a non-success exit gives the exit-status
\* text as the error, and neither calls read_solution; after a successful
\* exit the result of run is the result of read_solution on the configured
\* output file with the problem supplied.
C4_ParseOnlyAfterSuccess ==
    (lastRun.called /\ lastRun.env.tmp.ok) =>
        LET output == lastRun.env.output
            out == lastRun.out
        IN  /\ output = SpawnFailed =>
                  /\ ~out.parsed
                  /\ out.result = Err(<<"Error running the ", "Cbc", " solver">>)
            /\ (output \in ExitStatuses /\ output # "exit status: 0") =>
                  /\ ~out.parsed
                  /\ out.result = Err(<<output>>)
            /\ output = "exit status: 0" =>
                  /\ out.parsed
                  /\ out.result =
                        (IF lastRun.env.disk[self.temp_solution_file].exists
                         THEN read_specific_solution(
                                lastRun.env.disk[self.temp_solution_file].lines,
                                SomeProblem(runProblem))
                         ELSE Err(<<"Cannot open file">>))

C4_Witness ==
    /\ lastRun.called
    /\ lastRun.env.tmp.ok
    /\ lastRun.env.output = "exit status: 1"
    /\ lastRun.env.disk[self.temp_solution_file].exists
    /\ read_specific_solution(lastRun.env.disk[self.temp_solution_file].lines,
                              SomeProblem(runProblem)).kind = "Ok"
    /\ ~lastRun.out.parsed
    /\ lastRun.out.result = Err(<<"exit status: 1">>)

\* the flag/value pairs of an argument list: what lies between the first
\* argument and the last three
Middle(args) == SubSeq(args, 2, Len(args) - 3)

\* flag is followed by value at one of the pair positions of mid
HasPair(mid, flag, value) ==
    \E i \in DOMAIN mid : i % 2 = 1 /\ i < Len(mid) /\ mid[i] = flag /\ mid[i + 1] = value

Occurs(mid, word) == \E i \in DOMAIN mid : mid[i] = word

\* C7: the argument list run builds is the problem-file path, then for each
\* tuning option its flag followed by its value exactly when the option is
\* set, then "solve", "solution" and the configured output-file path.
C7_ArgumentList ==
    (lastRun.called /\ lastRun.out.built) =>
        LET args == lastRun.out.args
            n == Len(args)
            mid == Middle(args)
            set == (IF self.seconds.some THEN 1 ELSE 0) + (IF self.threads.some THEN 1 ELSE 0)
        IN  /\ n = 4 + 2 * set
            /\ args[1] = lastRun.env.tmp.path
            /\ args[n - 2] = "solve"
            /\ args[n - 1] = "solution"
            /\ args[n] = self.temp_solution_file
            /\ IF self.seconds.some
               THEN HasPair(mid, "seconds", U32ToString(self.seconds.val))
               ELSE ~Occurs(mid, "seconds")
            /\ IF self.threads.some
               THEN HasPair(mid, "threads", U32ToString(self.threads.val))
               ELSE ~Occurs(mid, "threads")

C7_Witness ==
    /\ lastRun.called
    /\ self.seconds = Some(60)
    /\ self.threads = None
    /\ self.command_name = "coin-cbc"
    /\ lastRun.out.args = <<"/tmp/model.lp", "seconds", "60", "solve", "solution", "out.sol">>

Position(args, word) == CHOOSE i \in DOMAIN args : args[i] = word

\* C10: two executions of run on the same configuration with max-seconds and
\* thread-count both set pass the two flag pairs in the same relative order.
C10_StableFlagOrder ==
    (self.seconds.some /\ self.threads.some) =>
        \A i, j \in DOMAIN invocations :
            (Position(invocations[i], "seconds") < Position(invocations[i], "threads"))
              <=> (Position(invocations[j], "seconds") < Position(invocations[j], "threads"))

====
